---- MODULE Spec2Model ----
(***************************************************************************)
(* State-machine model of pysnake_game/snake_game.py: the main loop of the *)
(* Snake game (event polling, pause loop, movement tick, eat / win / loss  *)
(* handling, restart) and the pure helpers it calls.                       *)
(*                                                                         *)
(* Positions are kept in pixels as in the source; a cell is the pair       *)
(* <<x, y>> of an SDL_Rect (its w and h are always cell_size).             *)
(***************************************************************************)
EXTENDS Integers, Sequences, FiniteSets, TLC

(* ------------------------------------------------------------------ *)
(* Bounds of the model                                                 *)
(* ------------------------------------------------------------------ *)
\* number of cell columns of the window (the source has 25)
GridCols == 2
\* number of cell rows of the arena below the status bar (the source has 17)
GridRows == 2
\* largest record value read from resources/data.json at startup
MaxRecord == 4

(* ------------------------------------------------------------------ *)
(* Program constants                                                   *)
(* ------------------------------------------------------------------ *)
cell_size == 10
status_height == 30
snake_initial_size == 3
window_width == GridCols * cell_size
window_height == status_height + GridRows * cell_size

Directions == {"UP", "DOWN", "LEFT", "RIGHT"}

(* ------------------------------------------------------------------ *)
(* Input events.  An event is the part of an SDL_Event the code reads: *)
(* its type, key.keysym.sym, and (for a mouse click) whether button.x, *)
(* button.y lie inside the rectangle of the displayed message.         *)
(* key.keysym.sym is read for every event whatever its type; for a     *)
(* mouse click the field overlays button.x, so it can read as RETURN   *)
(* or ESCAPE but never as an arrow key.                                *)
(* ------------------------------------------------------------------ *)
Syms == {"UP", "DOWN", "LEFT", "RIGHT", "SPACE", "ESCAPE", "RETURN", "OTHER"}

Ev(t, s, h) == [type |-> t, sym |-> s, hit |-> h]

\* the inputs tried: every key the code names pressed, the pause key released,
\* the quit signal, a click inside the message, a click outside it, and
\* clicks outside it whose button.x reads as RETURN or as ESCAPE
Events ==
    {Ev("SDL_KEYDOWN", s, FALSE) : s \in Syms \ {"OTHER"}}
    \cup {Ev("SDL_KEYUP", "SPACE", FALSE)}
    \cup {Ev("SDL_QUIT", "OTHER", FALSE)}
    \cup {Ev("SDL_MOUSEBUTTONDOWN", "OTHER", TRUE),
          Ev("SDL_MOUSEBUTTONDOWN", "OTHER", FALSE),
          Ev("SDL_MOUSEBUTTONDOWN", "RETURN", FALSE),
          Ev("SDL_MOUSEBUTTONDOWN", "ESCAPE", FALSE)}

VARIABLES
    snake,        \* list of cells, head first
    apple_rect,   \* cell of the apple
    direction,    \* current heading
    record,       \* all-time record as the program holds it
    running,      \* main-loop flag
    paused,       \* pause flag
    snake_size,   \* len(snake) as of the last completed movement step
    pc,           \* position of the main loop
    data_file,    \* the record stored in resources/data.json
    now,          \* the value time.time() returns
    start_time,          \* time.time() at the start of the session
    total_paused_time,   \* the paused durations added up
    pause_start_time,    \* time.time() when the last pause began
    session_paused       \* (history) the paused durations added up since the
                         \* session began

vars == <<snake, apple_rect, direction, record, running, paused, snake_size, pc,
          data_file, now, start_time, total_paused_time, pause_start_time,
          session_paused>>

\* the timers of lines 334-336 and the history variable that follows them
timers == <<start_time, total_paused_time, pause_start_time, session_paused>>

(* ------------------------------------------------------------------ *)
(* Pure helpers                                                        *)
(* ------------------------------------------------------------------ *)
Range(s) == {s[i] : i \in 1..Len(s)}

Min2(a, b) == IF a < b THEN a ELSE b

\* generate_random_position: every value the two randint calls can give
generate_random_position_of(width, height, min_x, min_y) ==
    {<<IF cx * cell_size < min_x THEN min_x ELSE cx * cell_size,
       IF cy * cell_size < min_y THEN min_y ELSE cy * cell_size>> :
        cx \in (min_x \div cell_size)..((width \div cell_size) - 1),
        cy \in (min_y \div cell_size)..((height \div cell_size) - 1)}

\* the calls made for the window of the model
generate_random_position(min_x, min_y) ==
    generate_random_position_of(window_width, window_height, min_x, min_y)

\* initialize_grid: range(min_x, width, cell_size) x range(min_y, height, cell_size)
initialize_grid(min_x, min_y) ==
    {<<x, y>> : x \in {v \in min_x..(window_width - 1) : (v - min_x) % cell_size = 0},
                y \in {v \in min_y..(window_height - 1) : (v - min_y) % cell_size = 0}}

grid == initialize_grid(0, status_height)

\* initialize_snake: `size` rectangles, all at one random position
initialize_snake(size) ==
    {[i \in 1..size |-> p] : p \in generate_random_position(0, status_height)}

\* initialize_apple: one random position, not compared with the snake
initialize_apple == generate_random_position(0, status_height)

initial_direction_towards_side(snake_head, width, height) ==
    LET up == snake_head[2]
        down == height - snake_head[2]
        left == snake_head[1]
        right == width - snake_head[1]
        m == Min2(Min2(up, down), Min2(left, right))
    IN  IF up = m THEN "UP"
        ELSE IF down = m THEN "DOWN"
        ELSE IF left = m THEN "LEFT"
        ELSE "RIGHT"

\* initial_direction: opposite of the closest side; min() keeps the first
\* minimal key in the order UP, DOWN, LEFT, RIGHT
initial_direction_of(snake_head, width, height) ==
    LET up == snake_head[2]
        down == height - snake_head[2]
        left == snake_head[1]
        right == width - snake_head[1]
        m == Min2(Min2(up, down), Min2(left, right))
    IN  IF up = m THEN "DOWN"
        ELSE IF down = m THEN "UP"
        ELSE IF left = m THEN "RIGHT"
        ELSE "LEFT"

\* the calls at lines 330, 504 and 602: the window's width and height
initial_direction(snake_head) ==
    initial_direction_of(snake_head, window_width, window_height)

log_record_always(rec, size) == size

\* log_record: the returned record (the file is written exactly when it changes)
log_record(rec, size) == IF size > rec THEN size ELSE rec

stored_record_unconditional(rec, size, file) == size

\* log_record, lines 221-225: the content of resources/data.json afterwards
stored_record(rec, size, file) == IF size > rec THEN size ELSE file

\* event_exit
event_exit(e) == e.type = "SDL_QUIT" \/ e.sym = "ESCAPE"

change_direction_no_left_guard(dir, sym) ==
    IF sym = "UP" /\ dir # "DOWN" THEN "UP"
    ELSE IF sym = "DOWN" /\ dir # "UP" THEN "DOWN"
    ELSE IF sym = "LEFT" THEN "LEFT"
    ELSE IF sym = "RIGHT" /\ dir # "LEFT" THEN "RIGHT"
    ELSE dir

\* lines 400-408: the direction after one event with key.keysym.sym = sym
change_direction(dir, sym) ==
    IF sym = "UP" /\ dir # "DOWN" THEN "UP"
    ELSE IF sym = "DOWN" /\ dir # "UP" THEN "DOWN"
    ELSE IF sym = "LEFT" /\ dir # "RIGHT" THEN "LEFT"
    ELSE IF sym = "RIGHT" /\ dir # "LEFT" THEN "RIGHT"
    ELSE dir

new_head_of_two_cells(head, dir) ==
    IF dir = "UP" THEN <<head[1], head[2] - 2 * cell_size>>
    ELSE IF dir = "DOWN" THEN <<head[1], head[2] + 2 * cell_size>>
    ELSE IF dir = "LEFT" THEN <<head[1] - 2 * cell_size, head[2]>>
    ELSE IF dir = "RIGHT" THEN <<head[1] + 2 * cell_size, head[2]>>
    ELSE head

\* lines 410-420: the head moved one cell in the current direction
new_head_of(head, dir) ==
    IF dir = "UP" THEN <<head[1], head[2] - cell_size>>
    ELSE IF dir = "DOWN" THEN <<head[1], head[2] + cell_size>>
    ELSE IF dir = "LEFT" THEN <<head[1] - cell_size, head[2]>>
    ELSE IF dir = "RIGHT" THEN <<head[1] + cell_size, head[2]>>
    ELSE head

moved_snake_never_pops(s, nh, eats) == <<nh>> \o s

moved_snake_always_pops(s, nh, eats) == <<nh>> \o SubSeq(s, 1, Len(s) - 1)

\* lines 509-513: pop the tail unless the apple was eaten, then insert the head
moved_snake(s, nh, eats) ==
    IF eats THEN <<nh>> \o s ELSE <<nh>> \o SubSeq(s, 1, Len(s) - 1)

snake_collision_skips_tail(s) == \E i \in 2..(Len(s) - 1) : s[i] = s[1]

\* lines 519-521: the inserted head against snake[1:]
snake_collision(s) == \E i \in 2..Len(s) : s[i] = s[1]

window_collision_off_by_one(nh) ==
    nh[1] < 0 \/ nh[1] > window_width \/ nh[2] < status_height \/ nh[2] >= window_height

\* lines 524-529
window_collision_in(nh, width, height) ==
    nh[1] < 0 \/ nh[1] >= width \/ nh[2] < status_height \/ nh[2] >= height

\* lines 524-529 for the window of the model
window_collision(nh) == window_collision_in(nh, window_width, window_height)

has_free_cells_off_by_one(s) == Len(s) <= Cardinality(grid)

\* line 428: the test made before the apple is placed again
has_free_cells(s) == Len(s) < Cardinality(grid)

(* ------------------------------------------------------------------ *)
(* Initial state: main() up to the while loop                          *)
(* ------------------------------------------------------------------ *)
Init ==
    /\ snake \in initialize_snake(snake_initial_size)
    /\ apple_rect \in initialize_apple
    /\ direction = initial_direction(snake[1])
    /\ record \in 0..MaxRecord
    /\ running = TRUE
    /\ paused = FALSE
    /\ snake_size = 0        \* not yet assigned; first read follows line 516
    /\ pc = "events"
    /\ data_file = record    \* lines 266-267: the record is read from the file
    /\ now = 0
    /\ start_time = now
    /\ total_paused_time = 0
    /\ pause_start_time = 0
    /\ session_paused = 0

(* ------------------------------------------------------------------ *)
(* The event loop of one iteration, lines 356-408.  The events of a    *)
(* poll are handled one at a time; the poll ends when NoMoreEvents     *)
(* fires, so a poll is any finite sequence of events.                  *)
(* ------------------------------------------------------------------ *)

\* one event of the for loop at line 356
HandleEvent(e) ==
    /\ pc = "events"
    /\ running' = ~event_exit(e)
    /\ IF event_exit(e)
         THEN \* line 359: break; the movement step below still runs
              /\ pc' = "move"
              /\ UNCHANGED <<direction, paused, pause_start_time>>
         ELSE IF e.type = "SDL_KEYDOWN" /\ e.sym = "SPACE"
         THEN \* lines 366-380: enter the pause loop
              /\ paused' = TRUE
              /\ pause_start_time' = now
              /\ pc' = "paused"
              /\ UNCHANGED direction
         ELSE \* lines 401-408
              /\ direction' = change_direction(direction, e.sym)
              /\ pc' = "events"
              /\ UNCHANGED <<paused, pause_start_time>>
    /\ UNCHANGED <<snake, apple_rect, record, snake_size, data_file, now,
                   start_time, total_paused_time, session_paused>>

\* the for loop at line 356 runs out of events
NoMoreEvents ==
    /\ pc = "events"
    /\ pc' = "move"
    /\ UNCHANGED <<snake, apple_rect, direction, record, running, paused, snake_size,
                   data_file, now, timers>>

\* one event of the inner for loop at line 382, while paused.  The inner loop
\* rebinds `event`; when it breaks, lines 401-408 run on that event and the
\* outer for loop goes on with the rest of its own poll.
PauseEvent(e) ==
    /\ pc = "paused"
    /\ running' = ~event_exit(e)
    /\ IF event_exit(e) \/ e.sym \in Directions
         THEN /\ paused' = FALSE
              /\ direction' = change_direction(direction, e.sym)
              /\ pc' = "events"
         ELSE /\ pc' = "paused"
              /\ UNCHANGED <<direction, paused>>
    /\ IF ~event_exit(e) /\ e.sym \in Directions
         THEN \* line 397
              /\ total_paused_time' = total_paused_time + (now - pause_start_time)
              /\ session_paused' = session_paused + (now - pause_start_time)
         ELSE UNCHANGED <<total_paused_time, session_paused>>
    /\ UNCHANGED <<snake, apple_rect, record, snake_size, data_file, now,
                   start_time, pause_start_time>>

(* ------------------------------------------------------------------ *)
(* The movement step, lines 410-533                                    *)
(* ------------------------------------------------------------------ *)
new_head == new_head_of(snake[1], direction)

Eats == new_head = apple_rect

\* lines 423-436 and 512-533: the apple is eaten and cells are free
StepEat ==
    /\ pc = "move"
    /\ Eats
    /\ has_free_cells(snake)
    /\ apple_rect' \in initialize_apple \ Range(snake)
    /\ snake' = moved_snake(snake, new_head, TRUE)
    /\ snake_size' = Len(snake')
    /\ IF snake_collision(snake') \/ window_collision(new_head)
         THEN /\ record' = log_record(record, snake_size')
              /\ data_file' = stored_record(record, snake_size', data_file)
              /\ pc' = "lost"
         ELSE /\ pc' = "render"
              /\ UNCHANGED <<record, data_file>>
    /\ UNCHANGED <<direction, running, paused, now, timers>>

\* lines 423-453: the apple is eaten and len(snake) >= len(grid): the game is won
StepWin ==
    /\ pc = "move"
    /\ Eats
    /\ ~has_free_cells(snake)
    /\ apple_rect' \in initialize_apple
    /\ record' = log_record(record, Len(snake))
    /\ data_file' = stored_record(record, Len(snake), data_file)
    /\ pc' = "won"
    /\ UNCHANGED <<snake, direction, running, paused, snake_size, now, timers>>

\* lines 509-533: no apple eaten
StepMove ==
    /\ pc = "move"
    /\ ~Eats
    /\ snake' = moved_snake(snake, new_head, FALSE)
    /\ snake_size' = Len(snake')
    /\ IF snake_collision(snake') \/ window_collision(new_head)
         THEN /\ record' = log_record(record, snake_size')
              /\ data_file' = stored_record(record, snake_size', data_file)
              /\ pc' = "lost"
         ELSE /\ pc' = "render"
              /\ UNCHANGED <<record, data_file>>
    /\ UNCHANGED <<apple_rect, direction, running, paused, now, timers>>

(* ------------------------------------------------------------------ *)
(* Waiting for a restart, lines 455-508 (won) and 553-604 (lost)       *)
(* ------------------------------------------------------------------ *)
IsRestart(e) ==
    (e.type = "SDL_MOUSEBUTTONDOWN" /\ e.hit) \/ e.sym = "RETURN"

\* lines 494-504 and 592-602: a fresh snake, apple and direction
Reinitialize ==
    /\ snake' \in initialize_snake(snake_initial_size)
    /\ apple_rect' \in initialize_apple
    /\ direction' = initial_direction(snake'[1])

\* one event of the for loop at line 458
WonEvent(e) ==
    /\ pc = "won"
    /\ running
    /\ IF event_exit(e)
         THEN \* restart stays False; `continue` ends the main loop
              /\ running' = FALSE
              /\ pc' = "done"
              /\ UNCHANGED <<snake, apple_rect, direction, start_time,
                             total_paused_time, session_paused>>
         ELSE IF IsRestart(e)
         THEN \* lines 492-508; `continue` goes back to the while test
              /\ running' = TRUE
              /\ Reinitialize
              /\ start_time' = now
              /\ total_paused_time' = 0
              /\ session_paused' = 0
              /\ pc' = "events"
         ELSE /\ pc' = "won"
              /\ UNCHANGED <<snake, apple_rect, direction, running, start_time,
                             total_paused_time, session_paused>>
    /\ UNCHANGED <<record, paused, snake_size, data_file, now, pause_start_time>>

\* the wait loop at line 457 is skipped: an exit event came before the step
WonSkip ==
    /\ pc = "won"
    /\ ~running
    /\ pc' = "done"
    /\ UNCHANGED <<snake, apple_rect, direction, record, running, paused, snake_size,
                   data_file, now, timers>>

\* one event of the for loop at line 556
LostEvent(e) ==
    /\ pc = "lost"
    /\ running
    /\ IF event_exit(e)
         THEN /\ running' = FALSE
              /\ pc' = "render"
              /\ UNCHANGED <<snake, apple_rect, direction, start_time, session_paused>>
         ELSE IF IsRestart(e)
         THEN \* lines 590-604: total_paused_time is not assigned here
              /\ running' = TRUE
              /\ Reinitialize
              /\ start_time' = now
              /\ session_paused' = 0
              /\ pc' = "render"
         ELSE /\ pc' = "lost"
              /\ UNCHANGED <<snake, apple_rect, direction, running, start_time,
                             session_paused>>
    /\ UNCHANGED <<record, paused, snake_size, data_file, now, total_paused_time,
                   pause_start_time>>

\* the wait loop at line 555 is skipped: an exit event came before the step
LostSkip ==
    /\ pc = "lost"
    /\ ~running
    /\ pc' = "render"
    /\ UNCHANGED <<snake, apple_rect, direction, record, running, paused, snake_size,
                   data_file, now, timers>>

\* line 640: the apple count handed to the status bar
apples_eaten == snake_size - snake_initial_size

\* lines 606-665 draw the frame; then the while test at line 338
Render ==
    /\ pc = "render"
    /\ pc' = IF running THEN "events" ELSE "done"
    /\ UNCHANGED <<snake, apple_rect, direction, record, running, paused, snake_size,
                   data_file, now, timers>>

Next ==
    \/ \E e \in Events : HandleEvent(e)
    \/ NoMoreEvents
    \/ \E e \in Events : PauseEvent(e)
    \/ StepEat
    \/ StepWin
    \/ StepMove
    \/ \E e \in Events : WonEvent(e)
    \/ WonSkip
    \/ \E e \in Events : LostEvent(e)
    \/ LostSkip
    \/ Render

Spec == Init /\ [][Next]_vars

(* ------------------------------------------------------------------ *)
(* The clock: time.time() between two steps of the loop                *)
(* ------------------------------------------------------------------ *)
MaxTime == 2

\* time.time() is read at lines 334, 379, 397, 505, 603 and 628; between two
\* reads the clock may have advanced
TimePasses ==
    /\ now < MaxTime
    /\ now' = now + 1
    /\ UNCHANGED <<snake, apple_rect, direction, record, running, paused, snake_size,
                   pc, data_file, timers>>

NextTime == Next \/ TimePasses

\* the game with a running clock (under Spec the clock stands still)
SpecTime == Init /\ [][NextTime]_vars

\* line 628
elapsed_time == now - start_time - total_paused_time

(* ------------------------------------------------------------------ *)
(* The first heading in the window of the source, lines 312-330: the   *)
(* snake is placed anywhere in the 25 x 17 arena and initial_direction *)
(* is applied to its head.                                             *)
(* ------------------------------------------------------------------ *)
full_window_width == 250
full_window_height == 200

\* lines 312-314, before `direction` is assigned
InitDirection ==
    /\ snake \in {[i \in 1..snake_initial_size |-> p] :
                    p \in generate_random_position_of(
                              full_window_width, full_window_height, 0, status_height)}
    /\ apple_rect = snake[1]
    /\ direction = "UNSET"
    /\ record = 0
    /\ running = TRUE
    /\ paused = FALSE
    /\ snake_size = 0
    /\ pc = "start"
    /\ data_file = record
    /\ now = 0
    /\ start_time = 0
    /\ total_paused_time = 0
    /\ pause_start_time = 0
    /\ session_paused = 0

\* line 330
SetDirection ==
    /\ pc = "start"
    /\ direction' = initial_direction_of(snake[1], full_window_width, full_window_height)
    /\ pc' = "events"
    /\ UNCHANGED <<snake, apple_rect, record, running, paused, snake_size,
                   data_file, now, timers>>

SpecDirection == InitDirection /\ [][SetDirection]_vars

(* ------------------------------------------------------------------ *)
(* The first tick in the window of the source: snake and apple are     *)
(* placed anywhere in the 25 x 17 arena (lines 312-317), the heading   *)
(* is set (line 330), and one movement step runs with no directional   *)
(* input before it.                                                    *)
(* ------------------------------------------------------------------ *)
full_positions ==
    generate_random_position_of(full_window_width, full_window_height, 0, status_height)

\* lines 312-317, before `direction` is assigned
InitFirstTick ==
    /\ snake \in {[i \in 1..snake_initial_size |-> p] : p \in full_positions}
    /\ apple_rect \in full_positions
    /\ direction = "UNSET"
    /\ record = 0
    /\ running = TRUE
    /\ paused = FALSE
    /\ snake_size = 0
    /\ pc = "start"
    /\ data_file = record
    /\ now = 0
    /\ start_time = 0
    /\ total_paused_time = 0
    /\ pause_start_time = 0
    /\ session_paused = 0

\* lines 410-533 in the window of the source; len(snake) is 3 and len(grid)
\* is 425, so the test of line 428 succeeds when the apple is eaten
FirstTick ==
    /\ pc = "events"
    /\ LET nh == new_head_of(snake[1], direction)
           eats == nh = apple_rect
       IN  /\ apple_rect' \in IF eats THEN full_positions \ Range(snake)
                                       ELSE {apple_rect}
           /\ snake' = moved_snake(snake, nh, eats)
           /\ snake_size' = Len(snake')
           /\ IF snake_collision(snake')
                  \/ window_collision_in(nh, full_window_width, full_window_height)
                THEN /\ record' = log_record(record, snake_size')
                     /\ data_file' = stored_record(record, snake_size', data_file)
                     /\ pc' = "lost"
                ELSE /\ pc' = "render"
                     /\ UNCHANGED <<record, data_file>>
    /\ UNCHANGED <<direction, running, paused, now, timers>>

NextFirstTick == SetDirection \/ FirstTick

SpecFirstTick == InitFirstTick /\ [][NextFirstTick]_vars

(* ------------------------------------------------------------------ *)
(* Vocabulary of the properties                                        *)
(* ------------------------------------------------------------------ *)
Opposite(d) ==
    CASE d = "UP" -> "DOWN" [] d = "DOWN" -> "UP"
      [] d = "LEFT" -> "RIGHT" [] d = "RIGHT" -> "LEFT"

\* the events whose key.keysym.sym is an arrow key
DirectionalEvents == {e \in Events : e.sym \in Directions}

\* a movement step is about to run: every step taken from here is one tick
Tick == pc = "move"

\* the session is being played: not won, not lost, not exiting after a loss
Running == pc \in {"events", "paused", "move"} \/ (pc = "render" /\ running)

\* the snake as initialize_snake leaves it: all segments on one cell
Fresh == Len(snake) = snake_initial_size /\ \A i \in 1..Len(snake) : snake[i] = snake[1]

\* the body the new head is compared with once the tail has been popped
BodyAfterPop == IF Eats THEN snake ELSE SubSeq(snake, 1, Len(snake) - 1)

\* the heading of the previous movement step, read off head and neck
LastMove == CHOOSE d \in Directions : new_head_of(snake[2], d) = snake[1]

(* ------------------------------------------------------------------ *)
(* C1                                                                  *)
(* ------------------------------------------------------------------ *)
\* C1 (as claimed, read on the ticks that do not end in the won state): a tick
\* ends in the lost state iff the new head is on a cell of the snake as it
\* was before the tail was removed, or is outside the arena.
C1_LossIffHitsBodyBeforePop ==
    [][(Tick /\ pc' # "won") =>
        ((pc' = "lost") <=> (new_head \in Range(snake) \/ new_head \notin grid))]_vars

\* C1 (amended): every tick that does not end in the won state ends in the
\* lost state iff the new head is on a cell of the snake after the tail was
\* popped for this tick (the whole snake when the apple is eaten), or is
\* outside the arena.
C1_LossIffHitsBodyAfterPop ==
    [][(Tick /\ pc' # "won") =>
        ((pc' = "lost") <=> (new_head \in Range(BodyAfterPop) \/ new_head \notin grid))]_vars

\* a loss by running into the body inside the arena
C1_Witness ==
    /\ pc = "lost"
    /\ snake[1] \in grid
    /\ \E i \in 2..Len(snake) : snake[i] = snake[1]

(* ------------------------------------------------------------------ *)
(* C2                                                                  *)
(* ------------------------------------------------------------------ *)
\* C2: a tick ends in the won state iff the snake eats the apple on it and
\* its length after that growth equals the number of grid cells.
C2_WonIffEatFillsGrid ==
    [][Tick => ((pc' = "won") <=> (Eats /\ Len(snake) + 1 = Cardinality(grid)))]_vars

(* ------------------------------------------------------------------ *)
(* C3                                                                  *)
(* ------------------------------------------------------------------ *)
\* C3: after a tick on which the apple was eaten and the game not won, the
\* apple is on no cell of the snake, the new head included.
C3_RelocatedAppleOffSnake ==
    [][(Tick /\ Eats /\ pc' # "won") => apple_rect' \notin Range(snake')]_vars

(* ------------------------------------------------------------------ *)
(* C4                                                                  *)
(* ------------------------------------------------------------------ *)
\* C4: at the start of a session (the first one, or after a restart) the
\* apple is not on the cell of the freshly initialised snake.
C4_FreshAppleOffSnake ==
    (Running /\ Fresh) => apple_rect \notin Range(snake)

(* ------------------------------------------------------------------ *)
(* C5                                                                  *)
(* ------------------------------------------------------------------ *)
\* C5: the heading a tick moves with is never the opposite of the heading
\* the previous tick of the session moved with.
C5_NoReversalBetweenTicks ==
    (Tick /\ snake[1] # snake[2]) => direction # Opposite(LastMove)

(* ------------------------------------------------------------------ *)
(* C6                                                                  *)
(* ------------------------------------------------------------------ *)
\* C6: handling one directional input (in the event loop, or as the input
\* that ends a pause) leaves the heading unchanged when the input is the
\* opposite of the heading, and sets the heading to the input otherwise.
C6_DirectionalInput ==
    [][(pc = "events" \/ pc = "paused") =>
        (\A e \in DirectionalEvents :
            (HandleEvent(e) \/ PauseEvent(e)) =>
                (direction' = IF e.sym = Opposite(direction) THEN direction ELSE e.sym))]_vars

\* a session not yet moved whose heading an input has changed
C6_Witness ==
    /\ pc = "events"
    /\ Fresh
    /\ direction # initial_direction(snake[1])

(* ------------------------------------------------------------------ *)
(* C7                                                                  *)
(* ------------------------------------------------------------------ *)
\* C7 (as claimed): on every tick on which the snake eats, the snake gets one
\* longer and its head is then on the cell the apple had.
C7_EatGrowsByOne ==
    [][(Tick /\ Eats) => (Len(snake') = Len(snake) + 1 /\ snake'[1] = apple_rect)]_vars

\* C7 (amended): on every tick on which the snake eats and the game is not
\* won, the snake gets one longer and its head is then on the cell the apple
\* had.
C7_EatGrowsByOneUnlessWon ==
    [][(Tick /\ Eats /\ pc' # "won") =>
        (Len(snake') = Len(snake) + 1 /\ snake'[1] = apple_rect)]_vars

\* a snake that has eaten and plays on
C7_Witness ==
    /\ pc = "render"
    /\ running
    /\ Len(snake) > snake_initial_size

(* ------------------------------------------------------------------ *)
(* C8                                                                  *)
(* ------------------------------------------------------------------ *)
\* C8: on every tick on which the snake does not eat, its length stays the
\* same: the new head is prepended and exactly the last cell is removed.
C8_MoveKeepsLength ==
    [][(Tick /\ ~Eats) =>
        /\ Len(snake') = Len(snake)
        /\ snake'[1] = new_head
        /\ \A i \in 2..Len(snake) : snake'[i] = snake[i - 1]]_vars

\* a snake that has moved without ever eating
C8_Witness ==
    /\ pc = "render"
    /\ Len(snake) = snake_initial_size
    /\ snake[1] # snake[2]

(* ------------------------------------------------------------------ *)
(* C9                                                                  *)
(* ------------------------------------------------------------------ *)
\* C9: no step lowers the record.
C9_RecordMonotone == [][record' >= record]_vars

\* a game lost with a snake shorter than the record: the record was kept
C9_Witness ==
    /\ pc = "lost"
    /\ snake_size < record

(* ------------------------------------------------------------------ *)
(* C10                                                                 *)
(* ------------------------------------------------------------------ *)
\* C10 (as claimed): while the session is running, the cells of the snake are
\* pairwise distinct.
C10_DistinctWhileRunning ==
    Running => \A i, j \in 1..Len(snake) : i < j => snake[i] # snake[j]

\* C10 (amended): while the session is running, two segments of the snake are
\* on one cell only when they and all segments behind them are, i.e. they
\* are trailing segments still stacked where initialize_snake put them; and
\* the head shares its cell only in the snake of initial size on which no
\* tick has run yet.
C10_DistinctExceptStackedTail ==
    Running =>
        /\ \A i, j \in 1..Len(snake) :
              (i < j /\ snake[i] = snake[j]) =>
                  \A k \in i..Len(snake) : snake[k] = snake[i]
        /\ snake[1] = snake[2] => Fresh

\* a running snake that has moved once: head apart, the rest still stacked
C10_Witness ==
    /\ Running
    /\ snake[1] # snake[2]
    /\ snake[Len(snake) - 1] = snake[Len(snake)]

(* ------------------------------------------------------------------ *)
(* C11                                                                 *)
(* ------------------------------------------------------------------ *)
\* C11: once an exit input has been polled (running is False), the loop goes
\* on to its end without a further exit input: nothing sets running back to
\* True, whatever else was queued in the same poll.
C11_ExitIsFinal == [][~running => ~running']_vars

(* ------------------------------------------------------------------ *)
(* C12                                                                 *)
(* ------------------------------------------------------------------ *)
\* an event of a wait loop that restarts the session
Restarts(e) == ~event_exit(e) /\ IsRestart(e) /\ (WonEvent(e) \/ LostEvent(e))

\* C12: every restart, from the lost state as from the won state, leaves the
\* cumulative paused duration at zero and the elapsed time (line 628) at
\* zero, so that the elapsed time is not negative.
C12_RestartResetsTimers ==
    [][(\E e \in Events : Restarts(e)) =>
           (total_paused_time' = 0 /\ elapsed_time' = 0)]_vars

(* ------------------------------------------------------------------ *)
(* C13                                                                 *)
(* ------------------------------------------------------------------ *)
KeyEvent(e) == e.type = "SDL_KEYDOWN" \/ e.type = "SDL_KEYUP"

\* an exit input: the quit signal or the escape key
ExitInput(e) == e.type = "SDL_QUIT" \/ (KeyEvent(e) /\ e.sym = "ESCAPE")

\* a directional input: an arrow key
DirectionalKey(e) == KeyEvent(e) /\ e.sym \in Directions

\* the pause input: the space bar pressed
PauseInput(e) == e.type = "SDL_KEYDOWN" /\ e.sym = "SPACE"

\* C13: the pause is entered only from Running on the pause input; while
\* paused the snake, the apple and the record do not change, and the heading
\* does not change as long as the pause lasts; an input that is neither a
\* directional key nor an exit input does not end the pause.
C13_PauseFreezes ==
    [][/\ ((pc # "paused") /\ pc' = "paused") =>
              (Running /\ \E e \in Events : PauseInput(e) /\ HandleEvent(e))
       /\ (pc = "paused") =>
              /\ UNCHANGED <<snake, apple_rect, record>>
              /\ pc' = "paused" => UNCHANGED direction
       /\ \A e \in Events :
              (PauseEvent(e) /\ ~ExitInput(e) /\ ~DirectionalKey(e)) =>
                  pc' = "paused"]_vars

(* ------------------------------------------------------------------ *)
(* C14                                                                 *)
(* ------------------------------------------------------------------ *)
\* an explicit restart trigger: the Enter key, or a click inside the message
ExplicitRestart(e) ==
    (KeyEvent(e) /\ e.sym = "RETURN") \/ (e.type = "SDL_MOUSEBUTTONDOWN" /\ e.hit)

\* C14: in the won and in the lost state no tick is run; an input that is not
\* an explicit restart trigger changes neither snake, apple, heading nor record
\* and does not bring the session back to Running; a restart leaves a snake
\* of the initial length on one cell, the heading computed from its head, and
\* an apple placed anew.
C14_RestartOnlyOnTrigger ==
    [][(pc = "won" \/ pc = "lost") =>
           /\ pc' # "move"
           /\ \A e \in Events :
                  ((WonEvent(e) \/ LostEvent(e)) /\ ~ExplicitRestart(e)) =>
                      (UNCHANGED <<snake, apple_rect, direction, record>> /\ ~Running')
           /\ (\E e \in Events : Restarts(e)) =>
                  /\ Fresh'
                  /\ direction' = initial_direction(snake'[1])
                  /\ apple_rect' \in initialize_apple]_vars

(* ------------------------------------------------------------------ *)
(* C15                                                                 *)
(* ------------------------------------------------------------------ *)
\* the distance from a head cell to each edge of the arena, whose top edge is
\* the bottom of the status bar; `reach` is 0 when the distance to the bottom
\* and right edges is taken from the cell's top-left corner as for the other
\* two, and cell_size when it is taken from the cell's far side
ArenaDistance(h, d, reach) ==
    CASE d = "UP" -> h[2] - status_height
      [] d = "DOWN" -> full_window_height - h[2] - reach
      [] d = "LEFT" -> h[1]
      [] d = "RIGHT" -> full_window_width - h[1] - reach

\* the arena edges the head is closest to, under either way of measuring
ClosestArenaEdges(h) ==
    {d \in Directions : \E reach \in {0, cell_size} :
        \A o \in Directions : ArenaDistance(h, d, reach) <= ArenaDistance(h, o, reach)}

\* C15: for every head cell of the arena, initial_direction returns the
\* direction opposite to an arena edge the head is closest to, the top edge
\* of the arena being the bottom of the status bar.
C15_AwayFromClosestArenaEdge ==
    (pc = "events") =>
        \E d \in ClosestArenaEdges(snake[1]) : direction = Opposite(d)

(* ------------------------------------------------------------------ *)
(* C16                                                                 *)
(* ------------------------------------------------------------------ *)
\* C16: once an exit input has been polled (running is False), no further
\* simulation step is performed: the snake, the apple, the record and the
\* stored record are not modified any more.
C16_NoStepAfterExit ==
    [][~running => UNCHANGED <<snake, apple_rect, record, data_file>>]_vars

(* ------------------------------------------------------------------ *)
(* C17                                                                 *)
(* ------------------------------------------------------------------ *)
\* C17: on every transition into the lost or the won state the record becomes
\* the larger of the previous record and the snake's length at that
\* transition, and the stored record is rewritten, with that length, exactly
\* when the length is greater than the previous record; no other step
\* touches the stored record.
C17_RecordOnTerminal ==
    [][IF (pc = "move") /\ (pc' = "won" \/ pc' = "lost")
         THEN /\ record' = IF Len(snake') > record THEN Len(snake') ELSE record
              /\ (data_file' # data_file) <=> (Len(snake') > record)
              /\ (Len(snake') > record) => data_file' = Len(snake')
         ELSE UNCHANGED <<record, data_file>>]_vars

\* a game lost with a grown snake whose length is the record, in memory and
\* in the store
C17_Witness ==
    /\ pc = "lost"
    /\ Len(snake) > snake_initial_size
    /\ record = Len(snake)
    /\ data_file = Len(snake)

(* ------------------------------------------------------------------ *)
(* C18                                                                 *)
(* ------------------------------------------------------------------ *)
\* C18: whenever the relocation loop is entered after an eat, some cell of the
\* grid is not occupied by the snake, and some position that
\* initialize_apple can return is such a cell, so the loop can end and the
\* tick can complete; this includes the snake that covers all cells but one.
C18_RelocationHasFreeCell ==
    (Tick /\ Eats /\ has_free_cells(snake)) =>
        /\ grid \ Range(snake) # {}
        /\ initialize_apple \ Range(snake) # {}
        /\ ENABLED StepEat

\* after an eat by a snake that covered all cells but one: the snake fills
\* the grid and the apple has been placed on the only cell the loop accepts
C18_Witness ==
    /\ pc = "render"
    /\ Len(snake) = Cardinality(grid)
    /\ Range(snake) = grid
    /\ apple_rect = snake[1]

(* ------------------------------------------------------------------ *)
(* C19                                                                 *)
(* ------------------------------------------------------------------ *)
\* C19: a pause ended by a directional input adds (resume time - pause start
\* time) to the cumulative paused duration, and in every frame the elapsed
\* time is the time since the session started minus the time spent paused in
\* that session.
C19_PausedTimeAccounted ==
    [][/\ \A e \in DirectionalEvents :
              PauseEvent(e) =>
                  total_paused_time' = total_paused_time + (now - pause_start_time)
       /\ (pc' = "render") =>
              elapsed_time' = now' - start_time' - session_paused']_vars

(* ------------------------------------------------------------------ *)
(* C20                                                                 *)
(* ------------------------------------------------------------------ *)
\* C20: in every rendered frame the apple count handed to the display is the
\* length of the current snake minus the initial snake size.
C20_AppleCountIsGrowth ==
    (pc = "render") => apples_eaten = Len(snake) - snake_initial_size

(* ------------------------------------------------------------------ *)
(* C21                                                                 *)
(* ------------------------------------------------------------------ *)
\* C21: for every start cell of the snake, the first tick, run with no
\* directional input, does not end in a loss: the head it inserts lies inside
\* the arena and on no other segment of the snake.
C21_FirstTickSurvives ==
    (pc = "render" \/ pc = "lost") =>
        /\ pc = "render"
        /\ snake[1] \in full_positions
        /\ \A i \in 2..Len(snake) : snake[i] # snake[1]

\* the first tick completed for a snake that started in the top-left corner
\* of the arena
C21_Witness ==
    /\ pc = "render"
    /\ snake[Len(snake)] = <<0, status_height>>

(* ------------------------------------------------------------------ *)
(* C22                                                                 *)
(* ------------------------------------------------------------------ *)
\* two cells side by side: one cell size apart along one axis, level on the other
Adjacent(a, b) ==
    \/ (a[1] = b[1] /\ (a[2] - b[2] = cell_size \/ b[2] - a[2] = cell_size))
    \/ (a[2] = b[2] /\ (a[1] - b[1] = cell_size \/ b[1] - a[1] = cell_size))

\* C22: in every reachable state, two consecutive segments of the snake are
\* on the same cell or on two cells that are orthogonally adjacent, exactly
\* one cell size apart.
C22_Connected ==
    \A i \in 1..(Len(snake) - 1) :
        snake[i] = snake[i + 1] \/ Adjacent(snake[i], snake[i + 1])

\* a snake that has eaten, has turned a corner, and lies on four cells
C22_Witness ==
    /\ Len(snake) = snake_initial_size + 1
    /\ Cardinality(Range(snake)) = Len(snake)
    /\ snake[1][1] # snake[3][1]
    /\ snake[1][2] # snake[3][2]

====
